---------------------------- MODULE Spec2Model ----------------------------
(***************************************************************************)
(* A model of the vector library: the mutable Vector class and the facade  *)
(* of free functions over it.                                              *)
(*                                                                         *)
(* Objects live in a heap (a sequence of vectors, an object's identity is  *)
(* its index), so that aliasing, receiver identity and fresh allocation    *)
(* are visible.  A JavaScript number is modelled as an exact real of the   *)
(* form (n/d)*sqrt(r), r square-free, or one of NaN, +Infinity, -Infinity, *)
(* with the IEEE-754 rules for the non-finite values.  Rounding and the    *)
(* sign of zero are not modelled.  A sum of two finite numbers with        *)
(* different radicands is outside this set ("irr"); a call that would      *)
(* produce one is not taken.                                               *)
(***************************************************************************)
EXTENDS Integers, Sequences, FiniteSets, TLC

VARIABLES heap, made, call, pre, ret, calls, root, chain, picked, scenario

vars == <<heap, made, call, pre, ret, calls, root, chain, picked, scenario>>

---------------------------------------------------------------------------
(* Numbers *)

Abs(i) == IF i < 0 THEN -i ELSE i

RECURSIVE GCD(_, _)
GCD(a, b) == IF b = 0 THEN a ELSE GCD(b, a % b)

RECURSIVE SqPartFrom(_, _)
(* the largest s with s*s dividing r, found by trial division from p up *)
SqPartFrom(r, p) ==
  IF p * p > r THEN 1
  ELSE IF r % (p * p) = 0 THEN p * SqPartFrom(r \div (p * p), p)
  ELSE SqPartFrom(r, p + 1)

SqPart(r) == SqPartFrom(r, 2)

NaN == [k |-> "nan", n |-> 0, d |-> 1, r |-> 1]
PInf == [k |-> "pinf", n |-> 0, d |-> 1, r |-> 1]
NInf == [k |-> "ninf", n |-> 0, d |-> 1, r |-> 1]
Irr == [k |-> "irr", n |-> 0, d |-> 1, r |-> 1]

(* (n/d)*sqrt(r) in lowest terms, d > 0, r square-free, zero as 0/1*sqrt(1) *)
Surd(n, d, r) ==
  IF n = 0 THEN [k |-> "fin", n |-> 0, d |-> 1, r |-> 1]
  ELSE LET s == SqPart(r)
           nn == n * s
           g == GCD(Abs(nn), d)
       IN [k |-> "fin", n |-> nn \div g, d |-> d \div g, r |-> r \div (s * s)]

Rat(n, d) == Surd(n, d, 1)
Int2Num(i) == Surd(i, 1, 1)
Zero == Int2Num(0)
One == Int2Num(1)

isFinite(a) == a.k = "fin"
IsNaN(a) == a.k = "nan"
IsZero(a) == a.k = "fin" /\ a.n = 0

Sgn(a) ==
  CASE a.k = "pinf" -> 1
    [] a.k = "ninf" -> -1
    [] a.k = "fin" -> (IF a.n > 0 THEN 1 ELSE IF a.n < 0 THEN -1 ELSE 0)
    [] OTHER -> 0

Inf(s) == IF s > 0 THEN PInf ELSE NInf

Neg(a) ==
  CASE a.k = "fin" -> [a EXCEPT !.n = -a.n]
    [] a.k = "pinf" -> NInf
    [] a.k = "ninf" -> PInf
    [] OTHER -> a

Add(a, b) ==
  CASE a.k = "irr" \/ b.k = "irr" -> Irr
    [] a.k = "nan" \/ b.k = "nan" -> NaN
    [] a.k = "fin" /\ b.k = "fin" ->
         IF a.n = 0 THEN b
         ELSE IF b.n = 0 THEN a
         ELSE IF a.r = b.r THEN Surd(a.n * b.d + b.n * a.d, a.d * b.d, a.r)
         ELSE Irr
    [] a.k = "fin" -> b
    [] b.k = "fin" -> a
    [] OTHER -> IF a.k = b.k THEN a ELSE NaN

Sub(a, b) == Add(a, Neg(b))

Mul(a, b) ==
  CASE a.k = "irr" \/ b.k = "irr" -> Irr
    [] a.k = "nan" \/ b.k = "nan" -> NaN
    [] a.k = "fin" /\ b.k = "fin" -> Surd(a.n * b.n, a.d * b.d, a.r * b.r)
    [] OTHER -> IF Sgn(a) * Sgn(b) = 0 THEN NaN ELSE Inf(Sgn(a) * Sgn(b))

Div(a, b) ==
  CASE a.k = "irr" \/ b.k = "irr" -> Irr
    [] a.k = "nan" \/ b.k = "nan" -> NaN
    [] a.k = "fin" /\ b.k = "fin" ->
         IF b.n = 0 THEN (IF a.n = 0 THEN NaN ELSE Inf(Sgn(a)))
         ELSE Surd(a.n * b.d * Sgn(b), a.d * Abs(b.n) * b.r, a.r * b.r)
    [] a.k = "fin" -> Zero
    [] b.k = "fin" -> Inf(Sgn(a) * (IF Sgn(b) < 0 THEN -1 ELSE 1))
    [] OTHER -> NaN

(* the square of a finite number, as the fraction <<numerator, denominator>> *)
SqNum(a) == a.n * a.n * a.r
SqDen(a) == a.d * a.d

(* a < b; false when either is NaN *)
Lt(a, b) ==
  CASE a.k \in {"nan", "irr"} \/ b.k \in {"nan", "irr"} -> FALSE
    [] a.k = "pinf" \/ b.k = "ninf" -> FALSE
    [] a.k = "ninf" \/ b.k = "pinf" -> TRUE
    [] OTHER ->
         IF Sgn(a) # Sgn(b) THEN Sgn(a) < Sgn(b)
         ELSE IF Sgn(a) >= 0
              THEN SqNum(a) * SqDen(b) < SqNum(b) * SqDen(a)
              ELSE SqNum(a) * SqDen(b) > SqNum(b) * SqDen(a)

Gt(a, b) == Lt(b, a)
Le(a, b) == Lt(a, b) \/ (a = b /\ a.k \notin {"nan", "irr"})
Ge(a, b) == Le(b, a)

(* Math.max and Math.min of two numbers: NaN when either is NaN *)
MathMax(a, b) ==
  IF a.k = "irr" \/ b.k = "irr" THEN Irr
  ELSE IF a.k = "nan" \/ b.k = "nan" THEN NaN
  ELSE IF Lt(a, b) THEN b ELSE a

MathMin(a, b) ==
  IF a.k = "irr" \/ b.k = "irr" THEN Irr
  ELSE IF a.k = "nan" \/ b.k = "nan" THEN NaN
  ELSE IF Lt(b, a) THEN b ELSE a

(* the square root of the rational s >= 0, s.n/s.d in lowest terms:      *)
(* sqrt(n)/sqrt(d) with the square parts of n and d taken out             *)
SqrtOfRat(s) ==
  IF s.n = 0 THEN Zero
  ELSE LET sn == SqPart(s.n)
           sd == SqPart(s.d)
           rd == s.d \div (sd * sd)
       IN Surd(sn, sd * rd, (s.n \div (sn * sn)) * rd)

(* Math.hypot of three numbers: Infinity if any is infinite, else NaN if *)
(* any is NaN, else the square root of the sum of the squares            *)
MathHypot(a, b, c) ==
  IF a.k = "irr" \/ b.k = "irr" \/ c.k = "irr" THEN Irr
  ELSE IF {a.k, b.k, c.k} \cap {"pinf", "ninf"} # {} THEN PInf
  ELSE IF "nan" \in {a.k, b.k, c.k} THEN NaN
  ELSE SqrtOfRat(Add(Add(Mul(a, a), Mul(b, b)), Mul(c, c)))

(* Math.cos and Math.sin, on the angles the model draws *)
MathCos(angle) ==
  CASE angle = "0" -> One
    [] angle = "pi/2" -> Zero
    [] angle = "pi" -> Int2Num(-1)
    [] OTHER -> NaN

MathSin(angle) ==
  CASE angle = "0" -> Zero
    [] angle = "pi/2" -> One
    [] angle = "pi" -> Zero
    [] OTHER -> NaN

(* value || 0 : the falsy numbers are 0 and NaN *)
OrZero(a) == IF IsZero(a) \/ IsNaN(a) THEN Zero ELSE a

---------------------------------------------------------------------------
(* Values, objects and the heap *)

Ref(i) == [t |-> "ref", id |-> i, v |-> Zero]
NumV(a) == [t |-> "num", id |-> 0, v |-> a]
Undef == [t |-> "undef", id |-> 0, v |-> Zero]
(* Math.acos of a number in [-1, 1]; acos(1) is 0, other angles stay symbolic *)
MathAcos(a) ==
  IF a = One THEN NumV(Zero)
  ELSE IF a.k # "fin" THEN NumV(a)
  ELSE [t |-> "acos", id |-> 0, v |-> a]

Vec(x, y, z) == [x |-> x, y |-> y, z |-> z]

(* the result of a call: the heap it leaves and the value it returns *)
Res(h, r) == [h |-> h, r |-> r]

(* a parameter with a default value *)
Default(arg, dflt) == IF arg.t = "undef" THEN dflt ELSE arg.v

(* new Vector(x, y, z) *)
Vector(h, x, y, z) == Res(Append(h, Vec(x, y, z)), Ref(Len(h) + 1))

---------------------------------------------------------------------------
(* The Vector class *)

Vector_add(h, this, x, y, z) ==
  IF x.t = "num"
  THEN LET h1 == [h EXCEPT ![this].x = Add(@, x.v)]
           h2 == [h1 EXCEPT ![this].y = Add(@, Default(y, Zero))]
           h3 == [h2 EXCEPT ![this].z = Add(@, Default(z, Zero))]
       IN Res(h3, Ref(this))
  ELSE LET h1 == [h EXCEPT ![this].x = Add(@, h[x.id].x)]
           h2 == [h1 EXCEPT ![this].y = Add(@, h1[x.id].y)]
           h3 == [h2 EXCEPT ![this].z = Add(@, h2[x.id].z)]
       IN Res(h3, Ref(this))

Vector_sub(h, this, x, y, z) ==
  IF x.t = "num"
  THEN LET h1 == [h EXCEPT ![this].x = Sub(@, x.v)]
           h2 == [h1 EXCEPT ![this].y = Sub(@, Default(y, Zero))]
           h3 == [h2 EXCEPT ![this].z = Sub(@, Default(z, Zero))]
       IN Res(h3, Ref(this))
  ELSE LET h1 == [h EXCEPT ![this].x = Sub(@, h[x.id].x)]
           h2 == [h1 EXCEPT ![this].y = Sub(@, h1[x.id].y)]
           h3 == [h2 EXCEPT ![this].z = Sub(@, h2[x.id].z)]
       IN Res(h3, Ref(this))

(* mult whose guarded path returns nothing *)
Vector_mult_noReturn(h, this, factor) ==
  IF ~isFinite(factor) THEN Res(h, Undef)
  ELSE Res([h EXCEPT ![this] = Vec(Mul(@.x, factor), Mul(@.y, factor), Mul(@.z, factor))],
           Ref(this))

Vector_mult(h, this, factor) ==
  IF ~isFinite(factor) THEN Res(h, Ref(this))
  ELSE Res([h EXCEPT ![this] = Vec(Mul(@.x, factor), Mul(@.y, factor), Mul(@.z, factor))],
           Ref(this))

(* div that only guards against a non-finite divisor *)
Vector_div_noZeroCheck(h, this, divisor) ==
  IF ~isFinite(divisor) THEN Res(h, Ref(this))
  ELSE Res([h EXCEPT ![this] = Vec(Div(@.x, divisor), Div(@.y, divisor), Div(@.z, divisor))],
           Ref(this))

Vector_div(h, this, divisor) ==
  IF ~isFinite(divisor) \/ IsZero(divisor) THEN Res(h, Ref(this))
  ELSE Res([h EXCEPT ![this] = Vec(Div(@.x, divisor), Div(@.y, divisor), Div(@.z, divisor))],
           Ref(this))

Vector_set(h, this, x, y, z) ==
  IF x.t # "num"
  THEN LET h1 == [h EXCEPT ![this].x = h[x.id].x]
           h2 == [h1 EXCEPT ![this].y = h1[x.id].y]
           h3 == [h2 EXCEPT ![this].z = h2[x.id].z]
       IN Res(h3, Ref(this))
  ELSE Res([h EXCEPT ![this] = Vec(x.v, x.v, x.v)], Ref(this))

(* copy that returns the receiver itself *)
Vector_copy_alias(h, this) == Res(h, Ref(this))

Vector_copy(h, this) == Vector(h, h[this].x, h[this].y, h[this].z)

Vector_magSq(h, this) ==
  Add(Add(Mul(h[this].x, h[this].x), Mul(h[this].y, h[this].y)),
      Mul(h[this].z, h[this].z))

Vector_mag(h, this) == MathHypot(h[this].x, h[this].y, h[this].z)

(* normalize that divides by the squared magnitude *)
Vector_normalize_byMagSq(h, this) ==
  LET mag == MathHypot(h[this].x, h[this].y, h[this].z)
  IN IF IsZero(mag)
     THEN Vector_set(h, this, NumV(Zero), NumV(Zero), NumV(Zero))
     ELSE Vector_div(h, this, Mul(mag, mag))

Vector_normalize(h, this) ==
  LET mag == MathHypot(h[this].x, h[this].y, h[this].z)
  IN IF IsZero(mag)
     THEN Vector_set(h, this, NumV(Zero), NumV(Zero), NumV(Zero))
     ELSE Vector_div(h, this, mag)

Vector_setMag(h, this, mag) ==
  LET r1 == Vector_div(h, this, Vector_mag(h, this))
  IN Vector_mult(r1.h, r1.r.id, mag)

Vector_maxMag(h, this, mag) ==
  LET currentMag == MathHypot(h[this].x, h[this].y, h[this].z)
  IN IF Gt(currentMag, mag)
     THEN LET r1 == Vector_div(h, this, currentMag)
          IN Vector_mult(r1.h, r1.r.id, mag)
     ELSE Res(h, Ref(this))

Vector_minMag(h, this, mag) ==
  LET currentMag == MathHypot(h[this].x, h[this].y, h[this].z)
  IN IF Lt(currentMag, mag)
     THEN LET r1 == Vector_div(h, this, currentMag)
          IN Vector_mult(r1.h, r1.r.id, mag)
     ELSE Res(h, Ref(this))

Vector_constrainMag(h, this, min, max) ==
  LET mag == MathHypot(h[this].x, h[this].y, h[this].z)
  IN IF Lt(mag, min)
     THEN LET r1 == Vector_div(h, this, mag)
          IN Vector_mult(r1.h, r1.r.id, min)
     ELSE IF Gt(mag, max)
     THEN LET r1 == Vector_div(h, this, mag)
          IN Vector_mult(r1.h, r1.r.id, max)
     ELSE Res(h, Ref(this))

(* max that returns a copy of the operand it picks *)
Vector_max_copy(h, this, vector) ==
  IF Gt(Vector_mag(h, this), Vector_mag(h, vector))
  THEN Vector_copy(h, this)
  ELSE Vector_copy(h, vector)

Vector_max(h, this, vector) ==
  IF Gt(Vector_mag(h, this), Vector_mag(h, vector))
  THEN Res(h, Ref(this)) ELSE Res(h, Ref(vector))

Vector_min(h, this, vector) ==
  IF Lt(Vector_mag(h, this), Vector_mag(h, vector))
  THEN Res(h, Ref(this)) ELSE Res(h, Ref(vector))

(* cross with the second component's terms swapped *)
Vector_cross_swapped(h, this, vector) ==
  Vector(h,
    Sub(Mul(h[this].y, h[vector].z), Mul(h[this].z, h[vector].y)),
    Sub(Mul(h[this].x, h[vector].z), Mul(h[this].z, h[vector].x)),
    Sub(Mul(h[this].x, h[vector].y), Mul(h[this].y, h[vector].x)))

Vector_cross(h, this, vector) ==
  Vector(h,
    Sub(Mul(h[this].y, h[vector].z), Mul(h[this].z, h[vector].y)),
    Sub(Mul(h[this].z, h[vector].x), Mul(h[this].x, h[vector].z)),
    Sub(Mul(h[this].x, h[vector].y), Mul(h[this].y, h[vector].x)))

Vector_dot(h, this, vector) ==
  Add(Add(Mul(h[this].x, h[vector].x), Mul(h[this].y, h[vector].y)),
      Mul(h[this].z, h[vector].z))

(* x*vi.c + y*vj.c + z*vk.c *)
Combine(x, y, z, ci, cj, ck) == Add(Add(Mul(x, ci), Mul(y, cj)), Mul(z, ck))

(* a vector parameter whose default value is new Vector(x, y, z) *)
DefaultVector(h, arg, x, y, z) ==
  IF arg.t = "undef" THEN Vector(h, x, y, z) ELSE Res(h, arg)

(* the body of changeOfBasis, the parameters bound to objects i, j, k *)
Vector_changeOfBasis_body(h, this, i, j, k) ==
  LET x == h[this].x
      y == h[this].y
      z == h[this].z
      h1 == [h EXCEPT ![this].x = Combine(x, y, z, h[i].x, h[j].x, h[k].x)]
      h2 == [h1 EXCEPT ![this].y = Combine(x, y, z, h1[i].y, h1[j].y, h1[k].y)]
      h3 == [h2 EXCEPT ![this].z = Combine(x, y, z, h2[i].z, h2[j].z, h2[k].z)]
  IN Res(h3, Ref(this))

Vector_changeOfBasis_k(dk, this, i, j) ==
  Vector_changeOfBasis_body(dk.h, this, i, j, dk.r.id)

Vector_changeOfBasis_j(dj, this, i, vk) ==
  Vector_changeOfBasis_k(DefaultVector(dj.h, vk, Zero, Zero, One), this, i, dj.r.id)

Vector_changeOfBasis_i(di, this, vj, vk) ==
  Vector_changeOfBasis_j(DefaultVector(di.h, vj, Zero, One, Zero), this, di.r.id, vk)

(* an omitted basis vector is constructed by the default parameter *)
Vector_changeOfBasis(h, this, vi, vj, vk) ==
  Vector_changeOfBasis_i(DefaultVector(h, vi, One, Zero, Zero), this, vj, vk)

(* lerp that uses alpha as given *)
Vector_lerp_noClamp(h, this, vector, alpha) ==
  LET h1 == [h EXCEPT ![this].x = Add(@, Mul(Sub(h[vector].x, @), alpha))]
      h2 == [h1 EXCEPT ![this].y = Add(@, Mul(Sub(h1[vector].y, @), alpha))]
      h3 == [h2 EXCEPT ![this].z = Add(@, Mul(Sub(h2[vector].z, @), alpha))]
  IN Res(h3, Ref(this))

Vector_lerp(h, this, vector, alpha) ==
  LET internAplha == MathMin(MathMax(alpha, Zero), One)
      h1 == [h EXCEPT ![this].x = Add(@, Mul(Sub(h[vector].x, @), internAplha))]
      h2 == [h1 EXCEPT ![this].y = Add(@, Mul(Sub(h1[vector].y, @), internAplha))]
      h3 == [h2 EXCEPT ![this].z = Add(@, Mul(Sub(h2[vector].z, @), internAplha))]
  IN Res(h3, Ref(this))

Vector_angleBetween(h, this, vector) ==
  LET magMult == Mul(Vector_mag(h, this), Vector_mag(h, vector))
  IN IF IsZero(magMult) THEN Res(h, NumV(Zero))
     ELSE LET dotOverMag == Div(Vector_dot(h, this, vector), magMult)
          IN Res(h, MathAcos(MathMax(MathMin(dotOverMag, One), Int2Num(-1))))

Vector_rotate(h, this, angle) ==
  LET cosOfAngle == MathCos(angle)
      sinOfAngle == MathSin(angle)
      x == h[this].x
      h1 == [h EXCEPT ![this].x =
               OrZero(Add(Mul(x, cosOfAngle), Mul(h[this].y, Neg(sinOfAngle))))]
      h2 == [h1 EXCEPT ![this].y =
               OrZero(Add(Mul(x, sinOfAngle), Mul(h1[this].y, cosOfAngle)))]
  IN Res(h2, Ref(this))

Vector_rotateX(h, this, angle) ==
  LET cosOfAngle == MathCos(angle)
      sinOfAngle == MathSin(angle)
      y == h[this].y
      h1 == [h EXCEPT ![this].y =
               OrZero(Add(Mul(y, cosOfAngle), Mul(h[this].z, Neg(sinOfAngle))))]
      h2 == [h1 EXCEPT ![this].z =
               OrZero(Add(Mul(y, sinOfAngle), Mul(h1[this].z, cosOfAngle)))]
  IN Res(h2, Ref(this))

Vector_rotateY(h, this, angle) ==
  LET cosOfAngle == MathCos(angle)
      sinOfAngle == MathSin(angle)
      x == h[this].x
      h1 == [h EXCEPT ![this].x =
               OrZero(Add(Mul(x, cosOfAngle), Mul(h[this].z, sinOfAngle)))]
      h2 == [h1 EXCEPT ![this].z =
               OrZero(Add(Mul(x, Neg(sinOfAngle)), Mul(h1[this].z, cosOfAngle)))]
  IN Res(h2, Ref(this))

---------------------------------------------------------------------------
(* The facade of free functions *)

add(h, vector, x, y, z) ==
  IF x.t = "ref"
  THEN Vector(h, Add(h[vector].x, h[x.id].x),
                 Add(h[vector].y, h[x.id].y),
                 Add(h[vector].z, h[x.id].z))
  ELSE Vector(h, Add(h[vector].x, x.v),
                 Add(h[vector].y, Default(y, Zero)),
                 Add(h[vector].z, Default(z, Zero)))

sub(h, vector, x, y, z) ==
  IF x.t = "ref"
  THEN Vector(h, Sub(h[vector].x, h[x.id].x),
                 Sub(h[vector].y, h[x.id].y),
                 Sub(h[vector].z, h[x.id].z))
  ELSE Vector(h, Sub(h[vector].x, x.v),
                 Sub(h[vector].y, Default(y, Zero)),
                 Sub(h[vector].z, Default(z, Zero)))

mult(h, vector, factor) ==
  IF isFinite(factor)
  THEN Vector(h, Mul(h[vector].x, factor), Mul(h[vector].y, factor),
                 Mul(h[vector].z, factor))
  ELSE Vector(h, h[vector].x, h[vector].y, h[vector].z)

(* div that only guards against a non-finite divisor *)
div_noZeroCheck(h, vector, divisor) ==
  IF isFinite(divisor)
  THEN LET inverse == Div(One, divisor)
       IN Vector(h, Mul(h[vector].x, inverse), Mul(h[vector].y, inverse),
                    Mul(h[vector].z, inverse))
  ELSE Vector(h, h[vector].x, h[vector].y, h[vector].z)

div(h, vector, divisor) ==
  IF ~IsZero(divisor) /\ isFinite(divisor)
  THEN LET inverse == Div(One, divisor)
       IN Vector(h, Mul(h[vector].x, inverse), Mul(h[vector].y, inverse),
                    Mul(h[vector].z, inverse))
  ELSE Vector(h, h[vector].x, h[vector].y, h[vector].z)

normalize(h, vector) ==
  div(h, vector, MathHypot(h[vector].x, h[vector].y, h[vector].z))

(* setMag that scales the given vector in place *)
setMag_inPlace(h, vector, mag) == Vector_setMag(h, vector, mag)

setMag(h, vector, mag) ==
  LET r1 == div(h, vector, MathHypot(h[vector].x, h[vector].y, h[vector].z))
  IN Vector_mult(r1.h, r1.r.id, mag)

max(h, vector, otherVector) ==
  IF Gt(Vector_mag(h, vector), Vector_mag(h, otherVector))
  THEN Vector_copy(h, vector)
  ELSE Vector_copy(h, otherVector)

min(h, vector, otherVector) ==
  IF Lt(Vector_mag(h, vector), Vector_mag(h, otherVector))
  THEN Vector_copy(h, vector)
  ELSE Vector_copy(h, otherVector)

cross(h, vector, otherVector) ==
  Vector(h,
    Sub(Mul(h[vector].y, h[otherVector].z), Mul(h[vector].z, h[otherVector].y)),
    Sub(Mul(h[vector].z, h[otherVector].x), Mul(h[vector].x, h[otherVector].z)),
    Sub(Mul(h[vector].x, h[otherVector].y), Mul(h[vector].y, h[otherVector].x)))

dot(h, vector, otherVector) ==
  Add(Add(Mul(h[vector].x, h[otherVector].x), Mul(h[vector].y, h[otherVector].y)),
      Mul(h[vector].z, h[otherVector].z))

changeOfBasis_body(h, vector, i, j, k) ==
  Vector(h,
    Combine(h[vector].x, h[vector].y, h[vector].z, h[i].x, h[j].x, h[k].x),
    Combine(h[vector].x, h[vector].y, h[vector].z, h[i].y, h[j].y, h[k].y),
    Combine(h[vector].x, h[vector].y, h[vector].z, h[i].z, h[j].z, h[k].z))

changeOfBasis_k(dk, vector, i, j) == changeOfBasis_body(dk.h, vector, i, j, dk.r.id)

changeOfBasis_j(dj, vector, i, vk) ==
  changeOfBasis_k(DefaultVector(dj.h, vk, Zero, Zero, One), vector, i, dj.r.id)

changeOfBasis_i(di, vector, vj, vk) ==
  changeOfBasis_j(DefaultVector(di.h, vj, Zero, One, Zero), vector, di.r.id, vk)

changeOfBasis(h, vector, vi, vj, vk) ==
  changeOfBasis_i(DefaultVector(h, vi, One, Zero, Zero), vector, vj, vk)

lerp(h, vector, otherVector, alpha) ==
  Vector(h,
    Add(h[vector].x, Mul(Sub(h[otherVector].x, h[vector].x), alpha)),
    Add(h[vector].y, Mul(Sub(h[otherVector].y, h[vector].y), alpha)),
    Add(h[vector].z, Mul(Sub(h[otherVector].z, h[vector].z), alpha)))

(* angleBetween that returns 0 when the product of the magnitudes is 0 *)
angleBetween_zero(h, vector, otherVector) == Vector_angleBetween(h, vector, otherVector)

angleBetween(h, vector, otherVector) ==
  LET magMult == Mul(Vector_mag(h, vector), Vector_mag(h, otherVector))
  IN IF ~IsZero(magMult)
     THEN LET dotOverMag == Div(Vector_dot(h, vector, otherVector), magMult)
          IN Res(h, MathAcos(MathMax(MathMin(dotOverMag, One), Int2Num(-1))))
     ELSE Res(h, Undef)

rotate(h, vector, angle) ==
  LET cosOfAngle == MathCos(angle)
      sinOfAngle == MathSin(angle)
  IN Vector(h,
       Add(Mul(h[vector].x, cosOfAngle), Mul(h[vector].y, Neg(sinOfAngle))),
       Add(Mul(h[vector].x, sinOfAngle), Mul(h[vector].y, cosOfAngle)),
       h[vector].z)

rotateX(h, vector, angle) ==
  LET cosOfAngle == MathCos(angle)
      sinOfAngle == MathSin(angle)
  IN Vector(h,
       h[vector].x,
       Add(Mul(h[vector].y, cosOfAngle), Mul(h[vector].z, Neg(sinOfAngle))),
       Add(Mul(h[vector].y, sinOfAngle), Mul(h[vector].z, cosOfAngle)))

rotateY(h, vector, angle) ==
  LET cosOfAngle == MathCos(angle)
      sinOfAngle == MathSin(angle)
  IN Vector(h,
       Add(Mul(h[vector].x, cosOfAngle), Mul(h[vector].z, sinOfAngle)),
       h[vector].y,
       Add(Mul(h[vector].x, Neg(sinOfAngle)), Mul(h[vector].z, cosOfAngle)))

(* vertexVector.mult(vertexOtherVector.dot(vertexVector)) and the return *)
scalarProyection_mult(n, vertex, vertexVector, vertexOtherVector) ==
  add(Vector_mult(n.h, vertexVector,
                  Vector_dot(n.h, vertexOtherVector, vertexVector)).h,
      vertex, Ref(vertexVector), Undef, Undef)

(* vertexVector.normalize() and what follows *)
scalarProyection_normalize(s2, vertex, vertexVector) ==
  scalarProyection_mult(Vector_normalize(s2.h, vertexVector),
                        vertex, vertexVector, s2.r.id)

(* let vertexOtherVector = sub(otherVector, vertex) and what follows *)
scalarProyection_sub(s1, vertex, otherVector) ==
  scalarProyection_normalize(sub(s1.h, otherVector, Ref(vertex), Undef, Undef),
                             vertex, s1.r.id)

scalarProyection(h, vertex, vector, otherVector) ==
  scalarProyection_sub(sub(h, vector, Ref(vertex), Undef, Undef), vertex, otherVector)

---------------------------------------------------------------------------
(* The inputs the model draws *)

(* the largest numerator, denominator and radicand a component may take *)
MaxInt == 16

(* the largest number of objects the heap holds *)
MaxObjs == 5

(* how many calls a behaviour makes on inputs drawn widely *)
MaxCalls == 1

(* how long a chain of calls a behaviour makes on a few inputs *)
MaxChain == 2

InitVecs ==
  { Vec(Zero, Zero, Zero),
    Vec(Int2Num(3), Int2Num(-4), Zero),
    Vec(Int2Num(1), Int2Num(2), Int2Num(2)),
    Vec(Zero, One, One),
    Vec(Int2Num(-2), Zero, Zero),
    Vec(PInf, Int2Num(-1), Zero) }

ChainHeaps ==
  { <<Vec(Int2Num(3), Int2Num(-4), Zero), Vec(Int2Num(1), Int2Num(2), Int2Num(2))>>,
    <<Vec(Zero, Zero, Zero), Vec(Int2Num(1), Int2Num(2), Int2Num(2))>> }

Scalars ==
  IF scenario = "chain"
  THEN { Zero, Int2Num(2), PInf }
  ELSE { Zero, Int2Num(2), Int2Num(-1), Rat(1, 2), PInf, NInf, NaN }

Alphas ==
  IF scenario = "chain"
  THEN { Rat(1, 2), Int2Num(2) }
  ELSE { Zero, Int2Num(2), Int2Num(-1), Rat(1, 2), PInf, NInf, NaN, One }

(* numeric argument lists (x, y, z), the trailing ones omitted or given *)
NumArgs ==
  IF scenario = "chain"
  THEN { <<NumV(One), NumV(Int2Num(2)), Undef>> }
  ELSE { <<NumV(One), Undef, Undef>>,
         <<NumV(Int2Num(2)), NumV(Int2Num(-1)), Undef>>,
         <<NumV(One), NumV(Int2Num(2)), NumV(Int2Num(3))>> }

(* (min, max) argument pairs of constrainMag *)
MagRanges ==
  IF scenario = "chain"
  THEN { <<Rat(1, 2), Int2Num(2)>>, <<Int2Num(-1), Int2Num(-1)>> }
  ELSE { <<Rat(1, 2), Int2Num(2)>>, <<Int2Num(-1), Int2Num(-1)>>,
         <<Zero, Int2Num(2)>>, <<NaN, PInf>> }

Angles ==
  IF scenario = "chain"
  THEN { "pi/2" }
  ELSE { "0", "pi/2", "pi", "NaN" }

Objs == 1..Len(heap)

MutatingOps ==
  { "add", "sub", "mult", "div", "set", "normalize", "setMag", "maxMag",
    "minMag", "constrainMag", "changeOfBasis", "lerp", "rotate", "rotateX",
    "rotateY" }

---------------------------------------------------------------------------
(* The state machine: every step is one call of a method or of a function *)

InRange(a) ==
  a.k # "irr" /\ Abs(a.n) <= MaxInt /\ a.d <= MaxInt /\ a.r <= MaxInt

(* the magnitudes of the objects of h are small enough to compute with *)
MagInRange(h) ==
  \A i \in 1..Len(h) : InRange(MathHypot(h[i].x, h[i].y, h[i].z))

Representable(res) ==
  /\ Len(res.h) <= MaxObjs
  /\ res.r.v.k # "irr"
  /\ \A i \in 1..Len(res.h) :
       InRange(res.h[i].x) /\ InRange(res.h[i].y) /\ InRange(res.h[i].z)

NoCall == [op |-> "none", recv |-> 0, args |-> <<>>, angle |-> ""]

(* the call before the last was not a.max(b) or a.min(b) *)
NoPick == [op |-> "none", this |-> 0, vector |-> 0, ret |-> 0]

Limit == IF scenario = "chain" THEN MaxChain ELSE MaxCalls

Start ==
  /\ made = <<"new", "new">>
  /\ call = NoCall
  /\ pre = <<>>
  /\ ret = Undef
  /\ calls = 0
  /\ root = 0
  /\ chain = 0
  /\ picked = NoPick

(* pairs of vectors whose magnitudes differ, tie, or do not compare *)
PickHeaps ==
  { <<Vec(Int2Num(3), Int2Num(-4), Zero), Vec(Int2Num(1), Int2Num(2), Int2Num(2))>>,
    <<Vec(Int2Num(3), Int2Num(-4), Zero), Vec(Zero, Int2Num(5), Zero)>>,
    <<Vec(NaN, Zero, Zero), Vec(Int2Num(1), Int2Num(2), Int2Num(2))>>,
    <<Vec(Zero, Zero, Zero), Vec(PInf, Int2Num(-1), Zero)>> }

(* single calls, on inputs drawn widely *)
Init ==
  /\ scenario = "call"
  /\ \E a \in InitVecs, b \in InitVecs : heap = <<a, b>>
  /\ Start

(* chains of calls, on a few inputs *)
InitChain ==
  /\ scenario = "chain"
  /\ heap \in ChainHeaps
  /\ Start

(* max and min, followed by a call on the reference they return *)
InitPick ==
  /\ scenario = "chain"
  /\ heap \in PickHeaps
  /\ Start

(* a call may be made: the behaviour is not at its limit, and the objects  *)
(* are within the range the model computes with                            *)
Ready == calls < Limit /\ MagInRange(heap)

(* the call is made on the reference a mutating method has just returned: *)
(* a.add(b).mult(2)                                                        *)
Chained(recv) == recv # 0 /\ call.op \in MutatingOps /\ ret = Ref(recv)

(* the call op(args) on receiver recv (0 for a free function) with result res *)
Do(op, recv, args, angle, res) ==
  /\ Representable(res)
  /\ heap' = res.h
  /\ made' = made \o [i \in 1..(Len(res.h) - Len(heap)) |-> op]
  /\ call' = [op |-> op, recv |-> recv, args |-> args, angle |-> angle]
  /\ pre' = heap
  /\ ret' = res.r
  /\ calls' = calls + 1
  /\ root' = IF Chained(recv) THEN root ELSE recv
  /\ chain' = IF Chained(recv) THEN chain + 1 ELSE 1
  /\ picked' = IF call.op \in {"max", "min"}
               THEN [op |-> call.op, this |-> call.recv,
                     vector |-> call.args[1].id, ret |-> ret.id]
               ELSE NoPick
  /\ UNCHANGED scenario

VecArgs == { <<Ref(v), Undef, Undef>> : v \in Objs }

BasisArgs ==
  IF scenario = "chain"
  THEN { <<Undef, Undef, Undef>> } \cup { <<Ref(i), Ref(i), Ref(i)>> : i \in Objs }
  ELSE { <<Undef, Undef, Undef>> }
       \cup { <<Ref(i), Ref(j), Undef>> : i \in Objs, j \in Objs }
       \cup { <<Ref(i), Ref(j), Ref(i)>> : i \in Objs, j \in Objs }

CallAdd ==
  /\ Ready
  /\ \E this \in Objs, a \in VecArgs \cup NumArgs :
       Do("add", this, a, "", Vector_add(heap, this, a[1], a[2], a[3]))

CallSub ==
  /\ Ready
  /\ \E this \in Objs, a \in VecArgs \cup NumArgs :
       Do("sub", this, a, "", Vector_sub(heap, this, a[1], a[2], a[3]))

CallMult ==
  /\ Ready
  /\ \E this \in Objs, factor \in Scalars :
       Do("mult", this, <<NumV(factor)>>, "", Vector_mult(heap, this, factor))

CallDiv ==
  /\ Ready
  /\ \E this \in Objs, divisor \in Scalars :
       Do("div", this, <<NumV(divisor)>>, "", Vector_div(heap, this, divisor))

CallSet ==
  /\ Ready
  /\ \E this \in Objs, a \in VecArgs \cup NumArgs :
       Do("set", this, a, "", Vector_set(heap, this, a[1], a[2], a[3]))

CallCopy ==
  /\ Ready
  /\ \E this \in Objs : Do("copy", this, <<>>, "", Vector_copy(heap, this))

CallNormalize ==
  /\ Ready
  /\ \E this \in Objs : Do("normalize", this, <<>>, "", Vector_normalize(heap, this))

CallSetMag ==
  /\ Ready
  /\ \E this \in Objs, mag \in Scalars :
       Do("setMag", this, <<NumV(mag)>>, "", Vector_setMag(heap, this, mag))

CallMaxMag ==
  /\ Ready
  /\ \E this \in Objs, mag \in Scalars :
       Do("maxMag", this, <<NumV(mag)>>, "", Vector_maxMag(heap, this, mag))

CallMinMag ==
  /\ Ready
  /\ \E this \in Objs, mag \in Scalars :
       Do("minMag", this, <<NumV(mag)>>, "", Vector_minMag(heap, this, mag))

CallConstrainMag ==
  /\ Ready
  /\ \E this \in Objs, m \in MagRanges :
       Do("constrainMag", this, <<NumV(m[1]), NumV(m[2])>>, "",
          Vector_constrainMag(heap, this, m[1], m[2]))

CallChangeOfBasis ==
  /\ Ready
  /\ \E this \in Objs, a \in BasisArgs :
       Do("changeOfBasis", this, a, "",
          Vector_changeOfBasis(heap, this, a[1], a[2], a[3]))

CallLerp ==
  /\ Ready
  /\ \E this \in Objs, vector \in Objs, alpha \in Alphas :
       Do("lerp", this, <<Ref(vector), NumV(alpha)>>, "",
          Vector_lerp(heap, this, vector, alpha))

CallAngleBetween ==
  /\ Ready
  /\ \E this \in Objs, vector \in Objs :
       Do("angleBetween", this, <<Ref(vector)>>, "",
          Vector_angleBetween(heap, this, vector))

CallRotate ==
  /\ Ready
  /\ \E this \in Objs, angle \in Angles :
       Do("rotate", this, <<>>, angle, Vector_rotate(heap, this, angle))

CallRotateX ==
  /\ Ready
  /\ \E this \in Objs, angle \in Angles :
       Do("rotateX", this, <<>>, angle, Vector_rotateX(heap, this, angle))

CallRotateY ==
  /\ Ready
  /\ \E this \in Objs, angle \in Angles :
       Do("rotateY", this, <<>>, angle, Vector_rotateY(heap, this, angle))

CallMax ==
  /\ Ready
  /\ \E this \in Objs, vector \in Objs :
       Do("max", this, <<Ref(vector)>>, "", Vector_max(heap, this, vector))

CallMin ==
  /\ Ready
  /\ \E this \in Objs, vector \in Objs :
       Do("min", this, <<Ref(vector)>>, "", Vector_min(heap, this, vector))

CallCross ==
  /\ Ready
  /\ \E this \in Objs, vector \in Objs :
       Do("cross", this, <<Ref(vector)>>, "", Vector_cross(heap, this, vector))

CallDot ==
  /\ Ready
  /\ \E this \in Objs, vector \in Objs :
       Do("dot", this, <<Ref(vector)>>, "",
          Res(heap, NumV(Vector_dot(heap, this, vector))))

NextVector ==
  \/ CallAdd \/ CallSub \/ CallMult \/ CallDiv \/ CallSet \/ CallCopy
  \/ CallNormalize \/ CallSetMag \/ CallMaxMag \/ CallMinMag
  \/ CallConstrainMag \/ CallChangeOfBasis \/ CallLerp \/ CallAngleBetween
  \/ CallRotate \/ CallRotateX \/ CallRotateY
  \/ CallMax \/ CallMin \/ CallCross \/ CallDot

FnAdd ==
  /\ Ready
  /\ \E vector \in Objs, a \in VecArgs \cup NumArgs :
       Do("Fn.add", 0, <<Ref(vector)>> \o a, "", add(heap, vector, a[1], a[2], a[3]))

FnSub ==
  /\ Ready
  /\ \E vector \in Objs, a \in VecArgs \cup NumArgs :
       Do("Fn.sub", 0, <<Ref(vector)>> \o a, "", sub(heap, vector, a[1], a[2], a[3]))

FnMult ==
  /\ Ready
  /\ \E vector \in Objs, factor \in Scalars :
       Do("Fn.mult", 0, <<Ref(vector), NumV(factor)>>, "", mult(heap, vector, factor))

FnDiv ==
  /\ Ready
  /\ \E vector \in Objs, divisor \in Scalars :
       Do("Fn.div", 0, <<Ref(vector), NumV(divisor)>>, "", div(heap, vector, divisor))

FnNormalize ==
  /\ Ready
  /\ \E vector \in Objs :
       Do("Fn.normalize", 0, <<Ref(vector)>>, "", normalize(heap, vector))

FnSetMag ==
  /\ Ready
  /\ \E vector \in Objs, mag \in Scalars :
       Do("Fn.setMag", 0, <<Ref(vector), NumV(mag)>>, "", setMag(heap, vector, mag))

FnMax ==
  /\ Ready
  /\ \E vector \in Objs, otherVector \in Objs :
       Do("Fn.max", 0, <<Ref(vector), Ref(otherVector)>>, "",
          max(heap, vector, otherVector))

FnMin ==
  /\ Ready
  /\ \E vector \in Objs, otherVector \in Objs :
       Do("Fn.min", 0, <<Ref(vector), Ref(otherVector)>>, "",
          min(heap, vector, otherVector))

FnCross ==
  /\ Ready
  /\ \E vector \in Objs, otherVector \in Objs :
       Do("Fn.cross", 0, <<Ref(vector), Ref(otherVector)>>, "",
          cross(heap, vector, otherVector))

FnDot ==
  /\ Ready
  /\ \E vector \in Objs, otherVector \in Objs :
       Do("Fn.dot", 0, <<Ref(vector), Ref(otherVector)>>, "",
          Res(heap, NumV(dot(heap, vector, otherVector))))

FnChangeOfBasis ==
  /\ Ready
  /\ \E vector \in Objs, a \in BasisArgs :
       Do("Fn.changeOfBasis", 0, <<Ref(vector)>> \o a, "",
          changeOfBasis(heap, vector, a[1], a[2], a[3]))

FnLerp ==
  /\ Ready
  /\ \E vector \in Objs, otherVector \in Objs, alpha \in Alphas :
       Do("Fn.lerp", 0, <<Ref(vector), Ref(otherVector), NumV(alpha)>>, "",
          lerp(heap, vector, otherVector, alpha))

FnAngleBetween ==
  /\ Ready
  /\ \E vector \in Objs, otherVector \in Objs :
       Do("Fn.angleBetween", 0, <<Ref(vector), Ref(otherVector)>>, "",
          angleBetween(heap, vector, otherVector))

FnRotate ==
  /\ Ready
  /\ \E vector \in Objs, angle \in Angles :
       Do("Fn.rotate", 0, <<Ref(vector)>>, angle, rotate(heap, vector, angle))

FnRotateX ==
  /\ Ready
  /\ \E vector \in Objs, angle \in Angles :
       Do("Fn.rotateX", 0, <<Ref(vector)>>, angle, rotateX(heap, vector, angle))

FnRotateY ==
  /\ Ready
  /\ \E vector \in Objs, angle \in Angles :
       Do("Fn.rotateY", 0, <<Ref(vector)>>, angle, rotateY(heap, vector, angle))

FnScalarProyection ==
  /\ Ready
  /\ \E vertex \in Objs, vector \in Objs, otherVector \in Objs :
       Do("Fn.scalarProyection", 0, <<Ref(vertex), Ref(vector), Ref(otherVector)>>, "",
          scalarProyection(heap, vertex, vector, otherVector))

NextFacade ==
  \/ FnAdd \/ FnSub \/ FnMult \/ FnDiv \/ FnNormalize \/ FnSetMag
  \/ FnMax \/ FnMin \/ FnCross \/ FnDot \/ FnChangeOfBasis \/ FnLerp
  \/ FnAngleBetween \/ FnRotate \/ FnRotateX \/ FnRotateY
  \/ FnScalarProyection

(* single calls of every method *)
Spec == Init /\ [][NextVector]_vars

(* single calls of every free function *)
SpecFacade == Init /\ [][NextFacade]_vars

(* chains of calls of the methods that change or alias vectors *)
NextChain ==
  \/ CallAdd \/ CallSub \/ CallMult \/ CallDiv \/ CallSet \/ CallCopy
  \/ CallNormalize \/ CallSetMag \/ CallMaxMag \/ CallMinMag
  \/ CallConstrainMag \/ CallChangeOfBasis \/ CallLerp
  \/ CallRotate \/ CallRotateX \/ CallRotateY
  \/ CallMax \/ CallMin

SpecChain == InitChain /\ [][NextChain]_vars

(* max and min, and mutating calls to follow them *)
NextPick ==
  \/ CallMax \/ CallMin \/ CallMult \/ CallSet \/ CallAdd \/ CallNormalize
SpecPick == InitPick /\ [][NextPick]_vars

(* cross and dot, as methods and as free functions *)
NextProduct == CallCross \/ CallDot \/ FnCross \/ FnDot
SpecProduct == Init /\ [][NextProduct]_vars

(* mult and div, as methods and as free functions *)
NextScale == CallMult \/ CallDiv \/ FnMult \/ FnDiv
SpecScale == Init /\ [][NextScale]_vars

(* normalize and setMag, as methods and as free functions *)
NextNormalize == CallNormalize \/ FnNormalize \/ CallSetMag \/ FnSetMag
SpecNormalize == Init /\ [][NextNormalize]_vars

(* lerp, as a method and as a free function *)
NextLerp == CallLerp \/ FnLerp
SpecLerp == Init /\ [][NextLerp]_vars

(* angleBetween, as a method and as a free function *)
NextAngle == CallAngleBetween \/ FnAngleBetween
SpecAngle == Init /\ [][NextAngle]_vars

---------------------------------------------------------------------------
(* Properties *)

ZeroVec == Vec(Zero, Zero, Zero)

FiniteVec(v) == isFinite(v.x) /\ isFinite(v.y) /\ isFinite(v.z)

(* the i-th argument of the last call *)
Arg(i) == call.args[i]

(* the last call left every object it found, other than those of keep, as it was *)
Frame(keep) == \A i \in 1..Len(pre) : i \notin keep => heap[i] = pre[i]

(* r refers to an object the last call created *)
Fresh(r) == r.t = "ref" /\ r.id > Len(pre) /\ r.id <= Len(heap)

(* v scaled by the number f, and divided by the number d *)
Scaled(v, f) == Vec(Mul(v.x, f), Mul(v.y, f), Mul(v.z, f))
Divided(v, d) == Vec(Div(v.x, d), Div(v.y, d), Div(v.z, d))

(* C1: every mutating method returns its receiver, on the guarded no-op    *)
(* paths too, so the reference a chain of such calls returns is the        *)
(* receiver the chain started from.                                        *)
C1_ReturnsReceiver ==
  call.op \in MutatingOps => ret = Ref(call.recv) /\ ret = Ref(root)

(* a second call of a chain that takes div's guarded path (divisor 0) *)
C1_Witness ==
  /\ chain = 2
  /\ call.op = "div"
  /\ Arg(1) = NumV(Zero)
  /\ heap = pre
  /\ ret = Ref(root)

VectorFns ==
  { "Fn.add", "Fn.sub", "Fn.mult", "Fn.div", "Fn.normalize", "Fn.setMag",
    "Fn.max", "Fn.min", "Fn.cross", "Fn.changeOfBasis", "Fn.lerp",
    "Fn.rotate", "Fn.rotateX", "Fn.rotateY", "Fn.scalarProyection" }

(* C2: a free function of the facade changes no vector that exists when    *)
(* it is called, and the vector it returns is one it has created, so none  *)
(* of its arguments.                                                       *)
C2_FacadeLeavesInputs ==
  call.op \in VectorFns => Frame({}) /\ Fresh(ret)

(* setMag has scaled the vector it created and left its argument alone *)
C2_Witness ==
  /\ call.op = "Fn.setMag"
  /\ Fresh(ret)
  /\ heap[ret.id] # pre[Arg(1).id]
  /\ heap[Arg(1).id] = pre[Arg(1).id]

(* C3: a method call changes the components of its receiver only; copy()   *)
(* returns a new object with the components the source has at the call,    *)
(* and leaves the source as it was.                                        *)
C3_OnlyReceiverChanges ==
  call.op # "none" =>
    /\ Frame({call.recv})
    /\ call.op = "copy" =>
         /\ Fresh(ret)
         /\ heap[ret.id] = pre[call.recv]
         /\ heap[call.recv] = pre[call.recv]

(* a copy has been mutated, and an object equal to it before is unchanged *)
C3_Witness ==
  /\ calls = 2
  /\ call.op \in MutatingOps
  /\ made[call.recv] = "copy"
  /\ heap[call.recv] # pre[call.recv]
  /\ \E i \in 1..Len(pre) :
       i # call.recv /\ pre[i] = pre[call.recv] /\ heap[i] = pre[i]

(* C4: mult by a non-finite factor and div by a zero or non-finite divisor *)
(* leave the receiver's components as they were, and the free functions    *)
(* return a new vector with the given vector's components; otherwise every *)
(* component is multiplied, or divided, by the number.                      *)
C4_ScaleGuards ==
  /\ call.op = "mult" =>
       heap[call.recv] = IF isFinite(Arg(1).v)
                         THEN Scaled(pre[call.recv], Arg(1).v)
                         ELSE pre[call.recv]
  /\ call.op = "div" =>
       heap[call.recv] = IF isFinite(Arg(1).v) /\ ~IsZero(Arg(1).v)
                         THEN Divided(pre[call.recv], Arg(1).v)
                         ELSE pre[call.recv]
  /\ call.op = "Fn.mult" =>
       /\ Fresh(ret)
       /\ heap[ret.id] = IF isFinite(Arg(2).v)
                         THEN Scaled(pre[Arg(1).id], Arg(2).v)
                         ELSE pre[Arg(1).id]
  /\ call.op = "Fn.div" =>
       /\ Fresh(ret)
       /\ heap[ret.id] = IF isFinite(Arg(2).v) /\ ~IsZero(Arg(2).v)
                         THEN Divided(pre[Arg(1).id], Arg(2).v)
                         ELSE pre[Arg(1).id]

(* div by 0 has left a non-zero vector as it was *)
C4_Witness ==
  /\ call.op = "div"
  /\ Arg(1) = NumV(Zero)
  /\ pre[call.recv] # ZeroVec
  /\ heap[call.recv] = pre[call.recv]

(* C5: set(vector) copies the vector's three components into the          *)
(* receiver; set(x, y, z) overwrites the receiver's components with        *)
(* (x, y, z), y and z being 0 when omitted.                                *)
C5_SetOverwrites ==
  call.op = "set" =>
    heap[call.recv] =
      IF Arg(1).t = "num"
      THEN Vec(Arg(1).v, Default(Arg(2), Zero), Default(Arg(3), Zero))
      ELSE pre[Arg(1).id]

(* the last call is maxMag, minMag or constrainMag on the zero vector with *)
(* arguments that make it rescale                                          *)
RescaleOfZero ==
  /\ call.op \in {"maxMag", "minMag", "constrainMag"}
  /\ pre[call.recv] = ZeroVec
  /\ \/ call.op = "minMag" /\ Lt(Zero, Arg(1).v)
     \/ call.op = "maxMag" /\ Gt(Zero, Arg(1).v)
     \/ call.op = "constrainMag" /\ (Lt(Zero, Arg(1).v) \/ Gt(Zero, Arg(2).v))

(* C6, as stated: a rescale of the zero vector by maxMag, minMag or        *)
(* constrainMag divides by the magnitude 0 and leaves the receiver with a  *)
(* non-finite component.                                                   *)
C6_Original == RescaleOfZero => ~FiniteVec(heap[call.recv])

(* C6, amended: the division of a rescale goes through div, whose guard    *)
(* skips a zero divisor, so a rescale of the zero vector by maxMag, minMag *)
(* or constrainMag leaves the receiver the zero vector and returns it.     *)
C6_ZeroVectorKept ==
  RescaleOfZero => heap[call.recv] = ZeroVec /\ ret = Ref(call.recv)

(* minMag with a positive minimum has been called on the zero vector *)
C6_Witness ==
  /\ RescaleOfZero
  /\ call.op = "minMag"
  /\ isFinite(Arg(1).v)
  /\ FiniteVec(heap[call.recv])

(* w has the direction of v: the same signs, and proportional components *)
SameDirection(v, w) ==
  /\ Sgn(v.x) = Sgn(w.x) /\ Sgn(v.y) = Sgn(w.y) /\ Sgn(v.z) = Sgn(w.z)
  /\ Mul(v.x, w.y) = Mul(v.y, w.x)
  /\ Mul(v.y, w.z) = Mul(v.z, w.y)
  /\ Mul(v.x, w.z) = Mul(v.z, w.x)

(* w is what normalize makes of v *)
Normalized(v, w) ==
  LET m == MathHypot(v.x, v.y, v.z)
  IN /\ IsZero(m) => w = ZeroVec
     /\ FiniteVec(v) /\ ~IsZero(m) =>
          /\ w = Divided(v, m)
          /\ MathHypot(w.x, w.y, w.z) = One
          /\ SameDirection(v, w)

(* C7: normalize leaves a vector of magnitude 0 at (0,0,0); a non-zero     *)
(* finite vector has every component divided by the magnitude, so that     *)
(* its magnitude becomes 1 and its direction is kept.  The free function   *)
(* does the same to the new vector it returns.                             *)
C7_Normalize ==
  /\ call.op = "normalize" => Normalized(pre[call.recv], heap[call.recv])
  /\ call.op = "Fn.normalize" =>
       Fresh(ret) /\ Normalized(pre[Arg(1).id], heap[ret.id])

(* a vector of irrational magnitude has been normalized *)
C7_Witness ==
  /\ call.op = "normalize"
  /\ FiniteVec(pre[call.recv])
  /\ Vector_mag(pre, call.recv).r # 1
  /\ heap[call.recv] # pre[call.recv]
  /\ Vector_mag(heap, call.recv) = One

(* a + (b - a) * alpha, component by component *)
Lerped(a, b, alpha) ==
  Vec(Add(a.x, Mul(Sub(b.x, a.x), alpha)),
      Add(a.y, Mul(Sub(b.y, a.y), alpha)),
      Add(a.z, Mul(Sub(b.z, a.z), alpha)))

(* the effect of the last call a.lerp(b, alpha), case by case on alpha *)
LerpCases ==
  LET a == pre[call.recv]
      b == pre[Arg(1).id]
      alpha == Arg(2).v
  IN /\ Le(alpha, Zero) => heap[call.recv] = a
     /\ Ge(alpha, One) => heap[call.recv] = b
     /\ Le(Zero, alpha) /\ Le(alpha, One) => heap[call.recv] = Lerped(a, b, alpha)
     /\ heap[Arg(1).id] = pre[Arg(1).id]

(* C8, as stated: for all vectors a and b, a.lerp(b, alpha) leaves a as it *)
(* was when alpha <= 0, makes a equal to b when alpha >= 1, makes each     *)
(* component a + (b - a) * alpha when alpha is in [0,1], and leaves b.     *)
C8_Original == call.op = "lerp" => LerpCases

(* C8, amended: for vectors a and b with finite components and an alpha    *)
(* that is not NaN, a.lerp(b, alpha) leaves a as it was when alpha <= 0,   *)
(* makes a equal to b when alpha >= 1, makes each component                *)
(* a + (b - a) * alpha when alpha is in [0,1], and leaves b as it was.     *)
C8_LerpClamps ==
  /\ call.op = "lerp"
  /\ FiniteVec(pre[call.recv])
  /\ FiniteVec(pre[Arg(1).id])
  /\ ~IsNaN(Arg(2).v)
  => /\ LerpCases
     /\ Le(Arg(2).v, Zero) \/ Ge(Arg(2).v, One) \/ (Le(Zero, Arg(2).v) /\ Le(Arg(2).v, One))

(* lerp with alpha 2 has moved a all the way to a different b *)
C8_Witness ==
  /\ call.op = "lerp"
  /\ Arg(2) = NumV(Int2Num(2))
  /\ FiniteVec(pre[call.recv])
  /\ pre[Arg(1).id] # pre[call.recv]
  /\ heap[call.recv] = pre[Arg(1).id]

(* the components the method lerp gives a copy of the i-th vector of h *)
LerpOfCopy(h, i, j, alpha) ==
  LET c == Vector_copy(h, i)
  IN Vector_lerp(c.h, c.r.id, j, alpha).h[c.r.id]

(* C9: the free function lerp(vector, otherVector, alpha) constrains alpha *)
(* to [0,1]: it returns the components the method lerp gives a copy of     *)
(* vector, so vector's for alpha < 0 and otherVector's for alpha > 1.      *)
C9_FacadeLerpClamps ==
  call.op = "Fn.lerp" =>
    /\ Fresh(ret)
    /\ heap[ret.id] = LerpOfCopy(pre, Arg(1).id, Arg(2).id, Arg(3).v)
    /\ (Lt(Arg(3).v, Zero) /\ FiniteVec(pre[Arg(1).id]) /\ FiniteVec(pre[Arg(2).id])
          => heap[ret.id] = pre[Arg(1).id])
    /\ (Gt(Arg(3).v, One) /\ FiniteVec(pre[Arg(1).id]) /\ FiniteVec(pre[Arg(2).id])
          => heap[ret.id] = pre[Arg(2).id])

(* the angle of the i-th and j-th vectors of h: acos of dot/(|a||b|)       *)
(* clamped into [-1,1]                                                     *)
AngleOf(h, i, j) ==
  LET magMult == Mul(Vector_mag(h, i), Vector_mag(h, j))
      dotOverMag == Div(Vector_dot(h, i, j), magMult)
  IN MathAcos(MathMax(MathMin(dotOverMag, One), Int2Num(-1)))

(* C10: when the product of the two magnitudes is 0, the method            *)
(* a.angleBetween(b) returns 0 and the free function angleBetween(a, b)    *)
(* returns undefined; otherwise both return the same angle, acos of        *)
(* dot/(|a||b|) clamped into [-1,1].  Neither changes a vector.            *)
C10_AngleBetween ==
  /\ call.op = "angleBetween" =>
       LET magMult == Mul(Vector_mag(pre, call.recv), Vector_mag(pre, Arg(1).id))
       IN /\ heap = pre
          /\ IsZero(magMult) => ret = NumV(Zero)
          /\ ~IsZero(magMult) =>
               /\ ret = AngleOf(pre, call.recv, Arg(1).id)
               /\ ret = angleBetween(pre, call.recv, Arg(1).id).r
          /\ FiniteVec(pre[call.recv]) /\ FiniteVec(pre[Arg(1).id]) =>
               (IsZero(magMult) <=> ZeroVec \in {pre[call.recv], pre[Arg(1).id]})
  /\ call.op = "Fn.angleBetween" =>
       LET magMult == Mul(Vector_mag(pre, Arg(1).id), Vector_mag(pre, Arg(2).id))
       IN /\ heap = pre
          /\ IsZero(magMult) => ret = Undef
          /\ ~IsZero(magMult) =>
               /\ ret = AngleOf(pre, Arg(1).id, Arg(2).id)
               /\ ret = Vector_angleBetween(pre, Arg(1).id, Arg(2).id).r

(* the free function has returned undefined for a zero vector, where the   *)
(* method returns 0                                                        *)
C10_Witness ==
  /\ call.op = "Fn.angleBetween"
  /\ ret = Undef
  /\ ZeroVec \in {pre[Arg(1).id], pre[Arg(2).id]}
  /\ Vector_angleBetween(pre, Arg(1).id, Arg(2).id).r = NumV(Zero)

(* C11: a.max(b) returns the object a when a's magnitude is strictly       *)
(* greater than b's, and the object b otherwise; a.min(b) returns a when   *)
(* a's magnitude is strictly smaller, and b otherwise.  Neither creates or *)
(* changes a vector, so a mutating call made next on the returned          *)
(* reference acts on that operand and leaves the other operand as it was.  *)
C11_MaxMinAlias ==
  /\ call.op = "max" =>
       /\ heap = pre
       /\ ret = IF Gt(Vector_mag(pre, call.recv), Vector_mag(pre, Arg(1).id))
                THEN Ref(call.recv) ELSE Ref(Arg(1).id)
  /\ call.op = "min" =>
       /\ heap = pre
       /\ ret = IF Lt(Vector_mag(pre, call.recv), Vector_mag(pre, Arg(1).id))
                THEN Ref(call.recv) ELSE Ref(Arg(1).id)
  /\ picked.op # "none" /\ call.op \in MutatingOps /\ call.recv = picked.ret =>
       /\ picked.ret \in {picked.this, picked.vector}
       /\ ret = Ref(picked.ret)
       /\ Frame({picked.ret})

(* a.max(b) with equal magnitudes has returned b, and a call on the        *)
(* returned reference has changed b and not a                              *)
C11_Witness ==
  /\ picked.op = "max"
  /\ picked.this # picked.vector
  /\ Vector_mag(pre, picked.this) = Vector_mag(pre, picked.vector)
  /\ picked.ret = picked.vector
  /\ call.op \in MutatingOps
  /\ call.recv = picked.ret
  /\ heap[picked.vector] # pre[picked.vector]
  /\ heap[picked.this] = pre[picked.this]

(* a is an integer *)
IsInteger(a) == isFinite(a) /\ a.d = 1 /\ a.r = 1

IntegerVec(v) == IsInteger(v.x) /\ IsInteger(v.y) /\ IsInteger(v.z)

(* the last call is op(a, b) on vectors a and b with integer components,   *)
(* a the i-th and b the j-th object                                        *)
ProductOf(op, fn, i, j) ==
  /\ \/ call.op = op /\ call.recv = i /\ Arg(1) = Ref(j)
     \/ call.op = fn /\ Arg(1) = Ref(i) /\ Arg(2) = Ref(j)
  /\ IntegerVec(pre[i])
  /\ IntegerVec(pre[j])

(* C12: for vectors a and b with integer components, a.cross(b) is a new   *)
(* vector c with c.dot(a) = 0 and c.dot(b) = 0, a.dot(b) = b.dot(a), and   *)
(* cross and dot change neither a nor b; the free functions cross and dot  *)
(* give the same.                                                          *)
C12_CrossDot ==
  \A i \in 1..Len(pre), j \in 1..Len(pre) :
    /\ ProductOf("cross", "Fn.cross", i, j) =>
         /\ Fresh(ret)
         /\ Frame({})
         /\ Vector_dot(heap, ret.id, i) = Zero
         /\ Vector_dot(heap, ret.id, j) = Zero
         /\ dot(heap, ret.id, i) = Zero
         /\ dot(heap, ret.id, j) = Zero
    /\ ProductOf("dot", "Fn.dot", i, j) =>
         /\ heap = pre
         /\ ret = NumV(Vector_dot(pre, j, i))
         /\ ret = NumV(dot(pre, j, i))

(* the cross product of two integer vectors that are not parallel *)
C12_Witness ==
  /\ call.op = "cross"
  /\ IntegerVec(pre[call.recv])
  /\ IntegerVec(pre[Arg(1).id])
  /\ Fresh(ret)
  /\ heap[ret.id] # ZeroVec
  /\ Vector_dot(heap, ret.id, call.recv) = Zero
  /\ Vector_dot(pre, call.recv, Arg(1).id) # Zero

=============================================================================
